---- MODULE Spec2Model ----
(***************************************************************************)
(* A model of rod's Browser (src/browser.go): sessions (Browser values),   *)
(* their cancellation scopes (context.Context), control calls through the  *)
(* cdp client, the event observable with its waiters, and the page         *)
(* operations PageE / PagesE.                                              *)
(*                                                                         *)
(* The cdp client (lib/cdp), Page (page.go) and trySlowmotion are code of  *)
(* the repository that is not part of browser.go; they are modelled from   *)
(* the specification's sections 4.1, 4.2 and 4.4, and so are the           *)
(* observable and the helpers All and E of the kit library.                *)
(***************************************************************************)
EXTENDS Integers, Sequences, FiniteSets, TLC

VARIABLES
    scopes,   \* the context.Context values created so far, by index
    sess,     \* the Browser values created so far, by index: the struct's fields
    lineage,  \* history: how each Browser value was made: from which Browser, via
              \* "new", "context" or "timeout", and the context made for it
    conn,     \* the control connection: "none", "open" or "closed"
    closing,  \* the endpoint has answered Browser.close and is shutting down
    reqs,     \* every request handed to the cdp client, by request id
    ops,      \* the operations (goroutines) callers have started, by index
    waits,    \* the waiters made by WaitEventE, by index
    evs,      \* the events received from the connection, in order of receipt
    targets   \* the endpoint's targets, by TargetID: their type

vars == <<scopes, sess, lineage, conn, closing, reqs, ops, waits, evs, targets>>

\* ---------------------------------------------------------------- bounds
MaxScopes == 4      \* contexts besides context.Background()
MaxSessions == 3    \* Browser values
MaxConnects == 2    \* ConnectE calls
MaxCalls == 1       \* callers' own b.Call(req)
MaxCloses == 2      \* CloseE calls
MaxPages == 1       \* PageE calls
MaxLists == 1       \* PagesE calls
MaxWaits == 1       \* WaitEventE registrations where scopes and closing are studied
MaxListeners == 2   \* WaitEventE registrations in all
MaxEvents == 2      \* events received from the connection
MaxTargets == 3     \* targets the endpoint holds

\* ---------------------------------------------------------------- contexts
\* b.ctx == nil: the Browser has no context yet.
NoCtx == 0
\* context.Background(): scopes[1], never cancelled.
Background == 1

Methods == {"A", "B"}

ScopeIds == 1..Len(scopes)
SessIds == 1..Len(sess)
OpIds == 1..Len(ops)
ReqIds == 1..Len(reqs)
WaitIds == 1..Len(waits)
EvIds == 1..Len(evs)

\* ctx.Done() is closed.
Done(x) == scopes[x].done

\* y is x or was derived from x (context.WithCancel / WithTimeout chains), in sc.
RECURSIVE Within(_, _, _)
Within(sc, y, x) ==
    IF y = x THEN TRUE
    ELSE IF sc[y].parent = 0 THEN FALSE
    ELSE Within(sc, sc[y].parent, x)

\* context.WithCancel(parent) / context.WithTimeout(parent, d): a child of parent,
\* already done when the parent is. As history, expired: the context became done
\* by its own deadline, not by a cancel function or through its parent.
NewScope(parent, kind) ==
    [parent |-> parent, kind |-> kind, done |-> scopes[parent].done,
     expired |-> FALSE]

\* The cancel function of scope x (or its deadline): x and every context derived
\* from it become done; no other context changes.
CancelScope(sc, x) ==
    [y \in DOMAIN sc |-> IF Within(sc, y, x) THEN [sc[y] EXCEPT !.done = TRUE] ELSE sc[y]]

\* ---------------------------------------------------------------- Browser
\* New(): &Browser{}
New == [ctx |-> NoCtx, timeoutCancel |-> NoCtx, close |-> NoCtx,
        client |-> FALSE, event |-> FALSE, slowmotion |-> FALSE]

Init ==
    /\ scopes = <<[parent |-> 0, kind |-> "background", done |-> FALSE,
                   expired |-> FALSE]>>
    /\ sess = <<New>>
    /\ lineage = <<[from |-> 0, via |-> "new", made |-> NoCtx]>>
    /\ conn = "none"
    /\ closing = FALSE
    /\ reqs = <<>>
    /\ ops = <<>>
    /\ waits = <<>>
    /\ evs = <<>>
    /\ targets = <<>>

\* Slowmotion(delay): a plain setter, it mutates the receiver.
Slowmotion(b, on) ==
    /\ sess[b].slowmotion # on
    /\ sess' = [sess EXCEPT ![b].slowmotion = on]
    /\ UNCHANGED <<scopes, lineage, conn, closing, reqs, ops, waits, evs, targets>>

\* Timeout calls that have run lines 100-101 and have not yet returned.
TimeoutsPending ==
    Cardinality({o \in DOMAIN ops : ops[o].kind = "timeout" /\ ops[o].pc # "done"})

\* Context(ctx): newObj := *b; newObj.ctx = ctx; return &newObj
ContextCopy(b, ctx) == [sess[b] EXCEPT !.ctx = ctx]

\* Context(ctx) with a context the caller supplies: one that exists already
\* (fresh = FALSE), or one the caller has just made for the purpose with
\* context.WithCancel(context.Background()) (fresh = TRUE).
Context(b, ctx, fresh) ==
    /\ Len(sess) + TimeoutsPending < MaxSessions
    /\ IF fresh
       THEN /\ ctx = Background
            /\ Len(scopes) <= MaxScopes
            /\ scopes' = Append(scopes, NewScope(ctx, "user"))
            /\ sess' = Append(sess, ContextCopy(b, Len(scopes) + 1))
       ELSE /\ scopes' = scopes
            /\ sess' = Append(sess, ContextCopy(b, ctx))
    /\ lineage' = Append(lineage, [from |-> b, via |-> "context",
                                    made |-> IF fresh THEN Len(scopes) + 1 ELSE NoCtx])
    /\ UNCHANGED <<conn, closing, reqs, ops, waits, evs, targets>>

\* The parent of the context Timeout makes: context.WithTimeout(b.ctx, d)
TimeoutParent(b) == sess[b].ctx

\* Timeout as it would be if it were a fluent setter: b.ctx = ctx as well.
TimeoutReceiver_InPlace(b, cancel) ==
    [sess[b] EXCEPT !.timeoutCancel = cancel, !.ctx = cancel]

\* What Timeout leaves in the receiver: b.timeoutCancel = cancel
TimeoutReceiver(b, cancel) == [sess[b] EXCEPT !.timeoutCancel = cancel]

\* What Timeout returns: return b.Context(ctx), a copy of the receiver as it is
\* when line 93 reads it, with the new context.
TimeoutCopy(recv, ctx) == [recv EXCEPT !.ctx = ctx]

\* Timeout(d), lines 100-101: ctx, cancel := context.WithTimeout(b.ctx, d)
\*                            b.timeoutCancel = cancel
\* The write to the receiver is unsynchronised: other goroutines holding b run
\* between it and the copy of line 102.
Timeout(b) ==
    /\ sess[b].ctx # NoCtx        \* context.WithTimeout panics on a nil parent
    /\ Len(sess) + TimeoutsPending < MaxSessions
    /\ Len(scopes) <= MaxScopes
    /\ LET x == Len(scopes) + 1
       IN /\ scopes' = Append(scopes, NewScope(TimeoutParent(b), "timeout"))
          /\ sess' = [sess EXCEPT ![b] = TimeoutReceiver(b, x)]
          /\ ops' = Append(ops, [kind |-> "timeout", b |-> b, pc |-> "copy",
                                 req |-> 0, ret |-> "none", ctx |-> x,
                                 tid |-> 0, page |-> 0, pages |-> <<>>, list |-> <<>>,
                                 prior |-> FALSE,
                                 back |-> FALSE, panic |-> "none", value |-> <<>>])
    /\ UNCHANGED <<lineage, conn, closing, reqs, waits, evs, targets>>

\* Timeout(d), line 102: return b.Context(ctx), a copy of the receiver as it is
\* when the copy is made (newObj := *b, line 93), with the context of this call.
TimeoutReturn(o) ==
    /\ o \in OpIds
    /\ ops[o].kind = "timeout"
    /\ ops[o].pc = "copy"
    /\ sess' = Append(sess, TimeoutCopy(sess[ops[o].b], ops[o].ctx))
    /\ lineage' = Append(lineage, [from |-> ops[o].b, via |-> "timeout",
                                    made |-> ops[o].ctx])
    /\ ops' = [ops EXCEPT ![o].pc = "done", ![o].ret = "ok"]
    /\ UNCHANGED <<scopes, conn, closing, reqs, waits, evs, targets>>

\* The deadline of a context made by Timeout passes.
DeadlineExpire(x) ==
    /\ scopes[x].kind = "timeout"
    /\ ~Done(x)
    /\ scopes' = [CancelScope(scopes, x) EXCEPT ![x].expired = TRUE]
    /\ UNCHANGED <<sess, lineage, conn, closing, reqs, ops, waits, evs, targets>>

\* The holder of a Browser calls its timeoutCancel handle.
CancelTimeout(b) ==
    /\ sess[b].timeoutCancel # NoCtx
    /\ ~Done(sess[b].timeoutCancel)
    /\ scopes' = CancelScope(scopes, sess[b].timeoutCancel)
    /\ UNCHANGED <<sess, lineage, conn, closing, reqs, ops, waits, evs, targets>>

\* The caller cancels a context of their own that they gave to Context(ctx).
UserCancel(x) ==
    /\ scopes[x].kind = "user"
    /\ ~Done(x)
    /\ scopes' = CancelScope(scopes, x)
    /\ UNCHANGED <<sess, lineage, conn, closing, reqs, ops, waits, evs, targets>>

\* ---------------------------------------------------------------- cdp client
\* A request as the client registers it: the context its Call waits under, the
\* operation that issued it, the slot the receive loop resolves, the outcome Call
\* returned with, and the response's payload (tid: a TargetID, list: targetInfos).
\* As history, live: the context was not done when the request was made, and
\* late: the slot was resolved when the context was already done.
NewReq(ctx, method, tid, o) ==
    [method |-> method, tid |-> tid, ctx |-> ctx, op |-> o,
     slot |-> "none", outcome |-> "none", list |-> <<>>,
     live |-> ~Done(ctx), late |-> FALSE]

\* client.Call, sending: the request gets the next id and a pending slot and is
\* transmitted; on a closed connection nothing is registered.
Transmit(ctx, method, tid, o) ==
    IF conn = "open" THEN Append(reqs, NewReq(ctx, method, tid, o)) ELSE reqs

\* The id client.Call gave the request, 0 when the send failed.
SentId == IF conn = "open" THEN Len(reqs) + 1 ELSE 0

\* client.Call, waiting: what the call of operation o can return with now.
\* A failed send is a connection error; otherwise the resolved slot, or a
\* cancellation once the call's context is done.
Outcomes(o) ==
    LET r == ops[o].req IN
    IF r = 0 THEN {"connErr"}
    ELSE (IF reqs[r].slot # "none" THEN {reqs[r].slot} ELSE {})
         \cup (IF Done(reqs[r].ctx) THEN {"cancelled"} ELSE {})

\* The call of operation o returns out: the request leaves the pending table.
Settle(o, out) ==
    IF ops[o].req = 0 THEN reqs
    ELSE [reqs EXCEPT ![ops[o].req].outcome = out]

\* The TargetIDs the endpoint has handed out.
TargetIds == 1..Len(targets)

\* The endpoint answers request r, with a result (ok) or a remote error, and the
\* receive loop resolves the request's slot. The endpoint acts on a request
\* whether or not its caller still waits.
Respond(r, ok) ==
    /\ conn = "open"
    /\ ~closing
    /\ reqs[r].slot = "none"
    /\ reqs[r].method = "Target.createTarget" /\ ok => Len(targets) < MaxTargets
    /\ LET m == reqs[r].method
           filled == [reqs[r] EXCEPT !.slot = IF ok THEN "result" ELSE "remoteErr",
                                      !.late = Done(reqs[r].ctx)]
       IN /\ reqs' = [reqs EXCEPT ![r] =
                 IF ~ok THEN filled
                 ELSE IF m = "Target.createTarget"
                      THEN [filled EXCEPT !.tid = Len(targets) + 1]
                 ELSE IF m = "Target.getTargets"
                      THEN [filled EXCEPT !.list = targets]
                 ELSE filled]
          /\ targets' = IF ok /\ m = "Target.createTarget"
                        THEN Append(targets, "page") ELSE targets
          /\ closing' = (ok /\ m = "Browser.close")
    /\ UNCHANGED <<scopes, sess, lineage, conn, ops, waits, evs>>

\* The connection closes: every still-pending slot resolves with a connection error.
ConnClose ==
    /\ conn = "open"
    /\ conn' = "closed"
    /\ reqs' = [r \in DOMAIN reqs |->
                  IF reqs[r].slot = "none" /\ reqs[r].outcome = "none"
                  THEN [reqs[r] EXCEPT !.slot = "connErr", !.late = Done(reqs[r].ctx)]
                  ELSE reqs[r]]
    /\ UNCHANGED <<scopes, sess, lineage, closing, ops, waits, evs, targets>>

\* ---------------------------------------------------------------- Call
\* The context Browser.Call hands to the client: b.client.Call(b.ctx, req)
CallCtx(b) == sess[b].ctx

\* An operation a caller starts: ret is what its explicit-failure form returns;
\* back, panic and value are for its convenience form, when the caller used
\* that: it has ended, with which panic ("none": it returned), returning what.
NewOp(b, kind, pc, req) ==
    [kind |-> kind, b |-> b, pc |-> pc, req |-> req, ret |-> "none", ctx |-> NoCtx,
     tid |-> 0, page |-> 0, pages |-> <<>>, list |-> <<>>,
     prior |-> \E p \in OpIds :
                  ops[p].kind = "close" /\ ops[p].b = b /\ ops[p].ret = "ok",
     back |-> FALSE, panic |-> "none", value |-> <<>>]

\* The method of the first control call of each operation.
FirstMethod(kind) ==
    CASE kind = "connect" -> "Target.setDiscoverTargets"
      [] kind = "close" -> "Browser.close"
      [] kind = "page" -> "Target.createTarget"
      [] kind = "pages" -> "Target.getTargets"
      [] OTHER -> "Any"

\* How many operations of a kind have been started.
Started(kind) == Cardinality({o \in OpIds : ops[o].kind = kind})

\* Browser b is connected: it has a client, and the ConnectE that made the
\* connection has returned without error. Callers call through a Browser after
\* Connect, not while it runs or after it failed.
Connected(b) ==
    /\ sess[b].client
    /\ \A o \in OpIds : ops[o].kind = "connect" => ops[o].pc = "done"
    /\ \E o \in OpIds : ops[o].kind = "connect" /\ ops[o].ret = "ok"

\* An operation of Browser b starts and makes its first b.Call(req):
\* b.trySlowmotion(req.Method), then b.client.Call(b.ctx, req).
Begin(b, kind) ==
    LET o == Len(ops) + 1 IN
    IF sess[b].slowmotion
    THEN /\ ops' = Append(ops, NewOp(b, kind, "sleep", 0))
         /\ reqs' = reqs
    ELSE /\ ops' = Append(ops, NewOp(b, kind, "call", SentId))
         /\ reqs' = Transmit(CallCtx(b), FirstMethod(kind), 0, o)

\* trySlowmotion's delay is over: the request goes to the client.
SleepDone(o) ==
    /\ o \in OpIds
    /\ ops[o].pc = "sleep"
    /\ ops' = [ops EXCEPT ![o].pc = "call", ![o].req = SentId]
    /\ reqs' = Transmit(CallCtx(ops[o].b), FirstMethod(ops[o].kind), 0, o)
    /\ UNCHANGED <<scopes, sess, lineage, conn, closing, waits, evs, targets>>

\* A caller's own b.Call(req).
Call(b) ==
    /\ Connected(b)
    /\ Started("call") < MaxCalls
    /\ Begin(b, "call")
    /\ UNCHANGED <<scopes, sess, lineage, conn, closing, waits, evs, targets>>

\* Call as it would be if it dropped the error of client.Call.
CallResult_Swallow(out) == "result"

\* What Browser.Call returns: what client.Call returned.
CallResult(out) == out

CallReturn(o) ==
    /\ o \in OpIds
    /\ ops[o].kind = "call"
    /\ ops[o].pc = "call"
    /\ \E out \in Outcomes(o) :
          /\ ops' = [ops EXCEPT ![o].pc = "done", ![o].ret = CallResult(out)]
          /\ reqs' = Settle(o, out)
    /\ UNCHANGED <<scopes, sess, lineage, conn, closing, waits, evs, targets>>

\* ---------------------------------------------------------------- ConnectE
\* if b.ctx == nil { ctx, cancel := context.WithCancel(context.Background());
\*                   b.ctx = ctx; b.close = cancel }
ConnectScope(b) ==
    IF sess[b].ctx = NoCtx
    THEN [sess[b] EXCEPT !.ctx = Len(scopes) + 1, !.close = Len(scopes) + 1]
    ELSE sess[b]

\* ConnectE, lines 60-64: the context is settled first. The model has one
\* connection, and one ConnectE runs at a time.
ConnectE(b) ==
    /\ ~sess[b].client
    /\ conn = "none"
    /\ \A o \in OpIds : ops[o].kind = "connect" => ops[o].pc = "done"
    /\ Started("connect") < MaxConnects
    /\ sess[b].ctx = NoCtx => Len(scopes) <= MaxScopes
    /\ scopes' = IF sess[b].ctx = NoCtx
                 THEN Append(scopes, NewScope(Background, "root")) ELSE scopes
    /\ sess' = [sess EXCEPT ![b] = ConnectScope(b)]
    /\ ops' = Append(ops, NewOp(b, "connect", "dial", 0))
    /\ UNCHANGED <<lineage, conn, closing, reqs, waits, evs, targets>>

\* ConnectE, lines 66-79: the launcher and cdp.New(b.ctx, b.controlURL) block on
\* the network and may fail (ok = FALSE), and ConnectE returns that error;
\* otherwise the connection is open and b.client = client.
ConnectDial(o, ok) ==
    /\ o \in OpIds
    /\ ops[o].kind = "connect"
    /\ ops[o].pc = "dial"
    /\ IF ok
       THEN /\ conn' = "open"
            /\ sess' = [sess EXCEPT ![ops[o].b].client = TRUE]
            /\ ops' = [ops EXCEPT ![o].pc = "events"]
       ELSE /\ ops' = [ops EXCEPT ![o].pc = "done", ![o].ret = "connectErr"]
            /\ UNCHANGED <<conn, sess>>
    /\ UNCHANGED <<scopes, lineage, closing, reqs, waits, evs, targets>>

\* initEvents, lines 245-256: b.event = kit.NewObservable(), the receive loop is
\* started, and b.Call sends Target.setDiscoverTargets (after the artificial
\* delay, if any). The connection may have closed since cdp.New returned.
ConnectInitEvents(o) ==
    /\ o \in OpIds
    /\ ops[o].kind = "connect"
    /\ ops[o].pc = "events"
    /\ sess' = [sess EXCEPT ![ops[o].b].event = TRUE]
    /\ IF sess[ops[o].b].slowmotion
       THEN /\ ops' = [ops EXCEPT ![o].pc = "sleep"]
            /\ reqs' = reqs
       ELSE /\ ops' = [ops EXCEPT ![o].pc = "call", ![o].req = SentId]
            /\ reqs' = Transmit(CallCtx(ops[o].b), FirstMethod("connect"), 0, o)
    /\ UNCHANGED <<scopes, lineage, conn, closing, waits, evs, targets>>

\* initEvents returns the error of its call, and ConnectE returns that.
ConnectReturn(o) ==
    /\ o \in OpIds
    /\ ops[o].kind = "connect"
    /\ ops[o].pc = "call"
    /\ \E out \in Outcomes(o) :
          /\ ops' = [ops EXCEPT ![o].pc = "done",
                                ![o].ret = IF out = "result" THEN "ok" ELSE out]
          /\ reqs' = Settle(o, out)
    /\ UNCHANGED <<scopes, sess, lineage, conn, closing, waits, evs, targets>>

\* ---------------------------------------------------------------- CloseE
\* _, err := b.Call(&cdp.Request{Method: "Browser.close"})
CloseE(b) ==
    /\ Connected(b)
    /\ Started("close") < MaxCloses
    /\ Begin(b, "close")
    /\ UNCHANGED <<scopes, sess, lineage, conn, closing, waits, evs, targets>>

\* What CloseE cancels after the call: if b.close != nil { b.close() }
CloseScope(b) == sess[b].close

\* CloseE as it would be if it ignored the error of its call.
CloseResult_Swallow(out) == "ok"

\* What CloseE returns for the outcome of its call:
\* if err != nil { return err } ... return nil
CloseResult(out) == IF out = "result" THEN "ok" ELSE out

\* if err != nil { return err }; if b.close != nil { b.close() }; return nil
CloseReturn(o) ==
    /\ o \in OpIds
    /\ ops[o].kind = "close"
    /\ ops[o].pc = "call"
    /\ \E out \in Outcomes(o) :
          /\ reqs' = Settle(o, out)
          /\ IF out = "result"
             THEN /\ ops' = [ops EXCEPT ![o].pc = "done", ![o].ret = CloseResult(out)]
                  /\ scopes' = IF CloseScope(ops[o].b) # NoCtx
                               THEN CancelScope(scopes, CloseScope(ops[o].b))
                               ELSE scopes
             ELSE /\ ops' = [ops EXCEPT ![o].pc = "done", ![o].ret = CloseResult(out)]
                  /\ scopes' = scopes
    /\ UNCHANGED <<sess, lineage, conn, closing, waits, evs, targets>>

\* ---------------------------------------------------------------- PageE
\* target, err := b.Call(&cdp.Request{Method: "Target.createTarget", ...})
PageE(b) ==
    /\ Connected(b)
    /\ Started("page") < MaxPages
    /\ Begin(b, "page")
    /\ UNCHANGED <<scopes, sess, lineage, conn, closing, waits, evs, targets>>

\* PageE as it would be if it read a key the response does not have.
PageTarget_Missing(r) == 0

\* The TargetID PageE builds its Page with: target.Get("targetId").String()
PageTarget(r) == reqs[r].tid

\* The context of the Page that b.page builds: ctx: b.ctx
PageCtx(b) == sess[b].ctx

\* A call of operation o has returned out and the operation makes its next call,
\* through the client and under context ctx: the requests after both.
ThenSend(o, out, ctx, method, tid) ==
    IF conn = "open"
    THEN Append(Settle(o, out), NewReq(ctx, method, tid, o))
    ELSE Settle(o, out)

\* page.initSession() for target t: the exchange with the endpoint that attaches
\* the Page to its target, made under the Page's context.
Attach(o, out, t) ==
    ThenSend(o, out, PageCtx(ops[o].b), "Target.attachToTarget", t)

\* The createTarget call returns. if err != nil { return nil, err }; then
\* b.page(targetId) builds the Page and page.initSession() starts attaching it.
PageCreated(o) ==
    /\ o \in OpIds
    /\ ops[o].kind = "page"
    /\ ops[o].pc = "call"
    /\ \E out \in Outcomes(o) :
          IF out # "result"
          THEN /\ ops' = [ops EXCEPT ![o].pc = "done", ![o].ret = out]
               /\ reqs' = Settle(o, out)
          ELSE LET t == PageTarget(ops[o].req)
               IN /\ ops' = [ops EXCEPT ![o].pc = "attach", ![o].tid = t,
                                        ![o].req = SentId]
                  /\ reqs' = Attach(o, out, t)
    /\ UNCHANGED <<scopes, sess, lineage, conn, closing, waits, evs, targets>>

\* page.initSession() returns. if err != nil { return nil, err }; then
\* page.NavigateE(url) sends the navigate call for the Page's target, under the
\* Page's context.
PageAttached(o) ==
    /\ o \in OpIds
    /\ ops[o].kind = "page"
    /\ ops[o].pc = "attach"
    /\ \E out \in Outcomes(o) :
          IF out # "result"
          THEN /\ ops' = [ops EXCEPT ![o].pc = "done", ![o].ret = out]
               /\ reqs' = Settle(o, out)
          ELSE /\ ops' = [ops EXCEPT ![o].pc = "nav", ![o].req = SentId]
               /\ reqs' = ThenSend(o, out, PageCtx(ops[o].b), "Page.navigate",
                                   ops[o].tid)
    /\ UNCHANGED <<scopes, sess, lineage, conn, closing, waits, evs, targets>>

\* PageE as it would be if it closed the target when navigation fails.
AfterNavigateFail_Cleanup(tg, t) == [tg EXCEPT ![t] = "closed"]

\* What PageE leaves of the target when navigation fails:
\* err = page.NavigateE(url); if err != nil { return nil, err }
AfterNavigateFail(tg, t) == tg

\* The navigate call returns: PageE returns the Page, or the failure and no Page.
PageNavigated(o) ==
    /\ o \in OpIds
    /\ ops[o].kind = "page"
    /\ ops[o].pc = "nav"
    /\ \E out \in Outcomes(o) :
          /\ reqs' = Settle(o, out)
          /\ IF out = "result"
             THEN /\ ops' = [ops EXCEPT ![o].pc = "done", ![o].ret = "ok",
                                        ![o].page = ops[o].tid]
                  /\ targets' = targets
             ELSE /\ ops' = [ops EXCEPT ![o].pc = "done", ![o].ret = out]
                  /\ targets' = AfterNavigateFail(targets, ops[o].tid)
    /\ UNCHANGED <<scopes, sess, lineage, conn, closing, waits, evs>>

\* ---------------------------------------------------------------- PagesE
\* list, err := b.Call(&cdp.Request{Method: "Target.getTargets"})
PagesE(b) ==
    /\ Connected(b)
    /\ Started("pages") < MaxLists
    /\ Begin(b, "pages")
    /\ UNCHANGED <<scopes, sess, lineage, conn, closing, waits, evs, targets>>

\* PagesE as it would be if it built a Page for every target of the list.
PageList_All(list, i) == [t \in 1..Len(list) |-> t]

\* The loop over targetInfos: the TargetIDs of the targets whose type is "page",
\* in the order of the list.
RECURSIVE PageList(_, _)
PageList(list, i) ==
    IF i > Len(list) THEN <<>>
    ELSE IF list[i] # "page" THEN PageList(list, i + 1)
    ELSE <<i>> \o PageList(list, i + 1)

\* The loop of PagesE reaches the next target of type "page", or its end: with
\* none left PagesE returns pageList; otherwise b.page builds a Page for the
\* first of them and page.initSession() starts attaching it.
PagesStep(o, out, pageList, left) ==
    IF left = <<>>
    THEN /\ ops' = [ops EXCEPT ![o].pc = "done", ![o].ret = "ok",
                               ![o].pages = pageList, ![o].list = left]
         /\ reqs' = Settle(o, out)
    ELSE /\ ops' = [ops EXCEPT ![o].pc = "attach", ![o].tid = Head(left),
                               ![o].pages = pageList, ![o].list = left,
                               ![o].req = SentId]
         /\ reqs' = Attach(o, out, Head(left))

\* The getTargets call returns. if err != nil { return nil, err };
\* pageList := []*Page{} and the loop over targetInfos starts.
PagesReturn(o) ==
    /\ o \in OpIds
    /\ ops[o].kind = "pages"
    /\ ops[o].pc = "call"
    /\ \E out \in Outcomes(o) :
          IF out # "result"
          THEN /\ ops' = [ops EXCEPT ![o].pc = "done", ![o].ret = out]
               /\ reqs' = Settle(o, out)
          ELSE PagesStep(o, out, <<>>, PageList(reqs[ops[o].req].list, 1))
    /\ UNCHANGED <<scopes, sess, lineage, conn, closing, waits, evs, targets>>

\* b.page returns for the target the loop is at: if err != nil { return nil, err };
\* pageList = append(pageList, page), and the loop goes on.
PagesAttached(o) ==
    /\ o \in OpIds
    /\ ops[o].kind = "pages"
    /\ ops[o].pc = "attach"
    /\ \E out \in Outcomes(o) :
          IF out # "result"
          THEN /\ ops' = [ops EXCEPT ![o].pc = "done", ![o].ret = out,
                                     ![o].pages = <<>>]
               /\ reqs' = Settle(o, out)
          ELSE PagesStep(o, out, Append(ops[o].pages, ops[o].tid), Tail(ops[o].list))
    /\ UNCHANGED <<scopes, sess, lineage, conn, closing, waits, evs, targets>>

\* A target appears at the endpoint that no PageE of this client asked for.
TargetAppears(type) ==
    /\ conn = "open"
    /\ ~closing
    /\ Len(targets) < MaxTargets
    /\ targets' = Append(targets, type)
    /\ UNCHANGED <<scopes, sess, lineage, conn, closing, reqs, ops, waits, evs>>

\* ---------------------------------------------------------------- events
\* The parent of a waiter's context: ctx, cancel := context.WithCancel(b.ctx)
WaitCtxParent(b) == sess[b].ctx

\* WaitEventE(filter), with filter = Method(f): the waiter gets a context of its
\* own and kit.All starts the goroutine that will run b.Event().Until(ctx, ...);
\* WaitEventE returns the accessor and cancel at once. As history, known: the
\* events published by then, and live: the Browser's context was not done then.
WaitEventE(b, f) ==
    /\ Connected(b)
    /\ Len(waits) < MaxListeners
    /\ Len(scopes) <= MaxScopes
    /\ scopes' = Append(scopes, NewScope(WaitCtxParent(b), "wait"))
    /\ waits' = Append(waits, [b |-> b, ctx |-> Len(scopes) + 1, filter |-> f,
                               pc |-> "spawned", event |-> 0, err |-> "none",
                               seen |-> <<>>,
                               known |-> {e \in EvIds : evs[e].published},
                               live |-> ~Done(sess[b].ctx),
                               back |-> FALSE, panic |-> "none", value |-> <<>>])
    /\ UNCHANGED <<sess, lineage, conn, closing, reqs, ops, evs, targets>>

\* A subscription as it would be if the observable replayed what it has
\* published to a new subscriber.
Backlog_Replay == {e \in EvIds : evs[e].published}

\* The events a new subscription starts with: none.
Backlog == {}

\* The waiter's goroutine calls b.Event().Until(ctx, ...) and subscribes to the
\* observable. On a Browser copied while ConnectE ran (after line 79, before line
\* 245) b.event is nil and the goroutine panics instead: the wait never exists.
WaitSubscribe(w) ==
    /\ w \in WaitIds
    /\ waits[w].pc = "spawned"
    /\ IF sess[waits[w].b].event
       THEN /\ waits' = [waits EXCEPT ![w].pc = "subscribed"]
            /\ evs' = [e \in DOMAIN evs |->
                         IF e \in Backlog THEN [evs[e] EXCEPT !.to = @ \cup {w}]
                         ELSE evs[e]]
       ELSE /\ waits' = [waits EXCEPT ![w].pc = "panicked", ![w].err = "nilObservable"]
            /\ evs' = evs
    /\ UNCHANGED <<scopes, sess, lineage, conn, closing, reqs, ops, targets>>

\* Until sees its context done and returns ctx.Err().
WaitCtxDone(w) ==
    /\ w \in WaitIds
    /\ waits[w].pc = "subscribed"
    /\ Done(waits[w].ctx)
    /\ waits' = [waits EXCEPT ![w].pc = "done", ![w].err = "cancelled"]
    /\ UNCHANGED <<scopes, sess, lineage, conn, closing, reqs, ops, evs, targets>>

\* The caller calls the cancel function WaitEventE returned.
WaitCancel(w) ==
    /\ w \in WaitIds
    /\ ~Done(waits[w].ctx)
    /\ scopes' = CancelScope(scopes, waits[w].ctx)
    /\ UNCHANGED <<sess, lineage, conn, closing, reqs, ops, waits, evs, targets>>

\* The events whose publishing the receive loop waits for before it takes the
\* next message, were it to call Publish itself.
LoopWaitsFor_Inline == {e \in EvIds : ~evs[e].published \/ evs[e].to # {}}

\* The events whose publishing the receive loop waits for before it takes the
\* next message: none, go b.event.Publish(msg) returns at once.
LoopWaitsFor == {}

\* The receive loop of initEvents has been started (line 247, right after
\* b.event is set) and its channel b.client.Event() is open.
LoopRunning == conn = "open" /\ \E b \in SessIds : sess[b].event

\* The receive loop takes an event off b.client.Event() and starts
\* go b.event.Publish(msg). Of each event the model keeps, besides its method:
\* seq, its place in the order of publishing; to, the waiters it has still to
\* reach; and as history subs, the waiters subscribed when it was received, snap,
\* the waiters subscribed when it was published, live, the waiters whose
\* WaitEventE had returned and that had neither returned nor been cancelled by
\* then, gone, the waiters whose context was done by then, and cut, the waiters
\* whose Browser's context was done by then.
RecvEvent(m) ==
    /\ LoopRunning
    /\ Len(evs) < MaxEvents
    /\ LoopWaitsFor = {}
    /\ evs' = Append(evs, [method |-> m, published |-> FALSE, seq |-> 0, to |-> {},
                           subs |-> {w \in WaitIds : waits[w].pc = "subscribed"},
                           snap |-> {}, live |-> {}, gone |-> {},
                           cut |-> {}])
    /\ UNCHANGED <<scopes, sess, lineage, conn, closing, reqs, ops, waits, targets>>

\* The waiters subscribed to the observable now.
Subscribers == {w \in WaitIds : waits[w].pc \in {"subscribed", "stuck"}}

\* A Publish goroutine runs: the event goes to the waiters subscribed now. The
\* goroutines of two events run in either order.
Publish(e) ==
    /\ e \in EvIds
    /\ ~evs[e].published
    /\ evs' = [evs EXCEPT
                 ![e].published = TRUE,
                 ![e].seq = Cardinality({p \in EvIds : evs[p].published}) + 1,
                 ![e].to = Subscribers,
                 ![e].snap = Subscribers,
                 ![e].live = {w \in WaitIds : /\ waits[w].pc \in {"spawned", "subscribed"}
                                              /\ ~Done(waits[w].ctx)},
                 ![e].gone = {w \in WaitIds : Done(waits[w].ctx)},
                 ![e].cut = {w \in WaitIds : Done(sess[waits[w].b].ctx)}]
    /\ UNCHANGED <<scopes, sess, lineage, conn, closing, reqs, ops, waits, targets>>

\* Until as it would be if it returned the first event it was given.
Matches_Any(w, e) == TRUE

\* filter(event), for the filter Method(name): the event's method is the name.
Matches(w, e) == evs[e].method = waits[w].filter

\* The check Until runs on an event for waiter w:
\* event = e.(*cdp.Event); return filter(event)
\* A filter of the caller's may not return (hang): the waiter is stuck in it.
Check(w, e, hang) ==
    [waits[w] EXCEPT !.event = e,
                     !.seen = Append(@, e),
                     !.pc = IF hang THEN "stuck"
                            ELSE IF Matches(w, e) THEN "done" ELSE "subscribed"]

\* An event as it would be if the first waiter to take it consumed it.
Remaining_Consumed(e, w) == {}

\* The waiters event e has still to reach once waiter w has taken it.
Remaining(e, w) == evs[e].to \ {w}

\* Waiter w takes event e from its subscription, the events published to it
\* reaching it in the order of their publishing; a waiter that has returned takes
\* nothing any more, and one stuck in its filter takes nothing yet.
Deliver(e, w, hang) ==
    /\ e \in EvIds
    /\ w \in evs[e].to
    /\ waits[w].pc # "stuck"
    /\ \A p \in EvIds : w \in evs[p].to => evs[p].seq >= evs[e].seq
    /\ waits[w].pc # "subscribed" => ~hang
    /\ evs' = [evs EXCEPT ![e].to = Remaining(e, w)]
    /\ waits' = IF waits[w].pc = "subscribed"
                THEN [waits EXCEPT ![w] = Check(w, e, hang)] ELSE waits
    /\ UNCHANGED <<scopes, sess, lineage, conn, closing, reqs, ops, targets>>

\* ---------------------------------------------------------------- convenience
\* kit.E(err): it panics with err unless err is nil ("ok" from an operation,
\* "none" from a waiter's accessor); "none" is no panic.
E(err) == IF err \in {"ok", "none"} THEN "none" ELSE err

\* A convenience form ends, its explicit-failure form having returned err and
\* value: kit.E(err) panics, or returns and the form returns value. rec is the
\* record of the operation or of the waiter.
Ended(rec, err, value) ==
    [rec EXCEPT !.back = TRUE,
                !.panic = E(err),
                !.value = IF E(err) = "none" THEN value ELSE <<>>]

\* The explicit-failure form of operation o, of the kind given, has returned to
\* the convenience form that called it.
Backed(o, kind) ==
    /\ o \in OpIds
    /\ ops[o].kind = kind
    /\ ops[o].pc = "done"
    /\ ~ops[o].back

\* Connect: kit.E(b.ConnectE()); return b
Connect(o) ==
    /\ Backed(o, "connect")
    /\ ops' = [ops EXCEPT ![o] = Ended(ops[o], ops[o].ret, <<ops[o].b>>)]
    /\ UNCHANGED <<scopes, sess, lineage, conn, closing, reqs, waits, evs, targets>>

\* Close: kit.E(b.CloseE())
Close(o) ==
    /\ Backed(o, "close")
    /\ ops' = [ops EXCEPT ![o] = Ended(ops[o], ops[o].ret, <<>>)]
    /\ UNCHANGED <<scopes, sess, lineage, conn, closing, reqs, waits, evs, targets>>

\* Page as it would be if it returned the Page without looking at the error.
Page_NoCheck(o) ==
    /\ Backed(o, "page")
    /\ ops' = [ops EXCEPT ![o] = Ended(ops[o], "ok", <<ops[o].page>>)]
    /\ UNCHANGED <<scopes, sess, lineage, conn, closing, reqs, waits, evs, targets>>

\* Page: p, err := b.PageE(url); kit.E(err); return p
Page(o) ==
    /\ Backed(o, "page")
    /\ ops' = [ops EXCEPT ![o] = Ended(ops[o], ops[o].ret, <<ops[o].page>>)]
    /\ UNCHANGED <<scopes, sess, lineage, conn, closing, reqs, waits, evs, targets>>

\* Pages: list, err := b.PagesE(); kit.E(err); return list
Pages(o) ==
    /\ Backed(o, "pages")
    /\ ops' = [ops EXCEPT ![o] = Ended(ops[o], ops[o].ret, <<ops[o].pages>>)]
    /\ UNCHANGED <<scopes, sess, lineage, conn, closing, reqs, waits, evs, targets>>

\* The accessor WaitEvent returns is called and ends: e, err := w(); kit.E(err);
\* return e, where w is the accessor of WaitEventE(Method(name)), which returns
\* once the waiter's goroutine has.
WaitEvent(w) ==
    /\ w \in WaitIds
    /\ waits[w].pc = "done"
    /\ ~waits[w].back
    /\ waits' = [waits EXCEPT ![w] = Ended(waits[w], waits[w].err, <<waits[w].event>>)]
    /\ UNCHANGED <<scopes, sess, lineage, conn, closing, reqs, ops, evs, targets>>

\* ---------------------------------------------------------------- specification
\* The environment: the endpoint and the connection.
Endpoint ==
    \/ \E r \in ReqIds, ok \in BOOLEAN : Respond(r, ok)
    \/ ConnClose

Connecting ==
    \/ \E b \in SessIds : ConnectE(b)
    \/ \E o \in OpIds, ok \in BOOLEAN : ConnectDial(o, ok)
    \/ \E o \in OpIds : ConnectInitEvents(o)
    \/ \E o \in OpIds : ConnectReturn(o)

Deriving ==
    \/ \E b \in SessIds, x \in ScopeIds, fresh \in BOOLEAN : Context(b, x, fresh)
    \/ \E b \in SessIds : Timeout(b)
    \/ \E o \in OpIds : TimeoutReturn(o)

Cancelling ==
    \/ \E x \in ScopeIds : DeadlineExpire(x)
    \/ \E b \in SessIds : CancelTimeout(b)
    \/ \E x \in ScopeIds : UserCancel(x)

Calling ==
    \/ \E b \in SessIds : Call(b)
    \/ \E o \in OpIds : CallReturn(o)

Closing ==
    \/ \E b \in SessIds : CloseE(b)
    \/ \E o \in OpIds : CloseReturn(o)

Waiting ==
    \/ \E b \in SessIds, f \in Methods : WaitEventE(b, f)
    \/ \E w \in WaitIds : WaitSubscribe(w)
    \/ \E w \in WaitIds : WaitCtxDone(w)
    \/ \E w \in WaitIds : WaitCancel(w)

Publishing ==
    \/ \E m \in Methods : RecvEvent(m)
    \/ \E e \in EvIds : Publish(e)
    \/ \E e \in EvIds, w \in WaitIds, hang \in BOOLEAN : Deliver(e, w, hang)

\* Sessions, derived scopes and the operations waiting on them.
NextScope ==
    \/ \E b \in SessIds : ConnectE(b)
    \/ \E o \in OpIds : ConnectDial(o, TRUE)
    \/ \E o \in OpIds : ConnectInitEvents(o)
    \/ \E o \in OpIds : ConnectReturn(o)
    \/ Deriving
    \/ Cancelling
    \/ Calling
    \/ \E b \in SessIds : Len(waits) < MaxWaits /\ WaitEventE(b, "A")
    \/ \E w \in WaitIds : WaitSubscribe(w)
    \/ \E w \in WaitIds : WaitCtxDone(w)
    \/ \E w \in WaitIds : WaitCancel(w)
    \/ \E r \in ReqIds, ok \in BOOLEAN : Respond(r, ok)

SpecScope == Init /\ [][NextScope]_vars

\* Every operation that goes through b.Call, with the artificial delay, the
\* endpoint's answers and the closing of the connection.
NextCall ==
    \/ Connecting
    \/ \E b \in SessIds, on \in BOOLEAN : Slowmotion(b, on)
    \/ Calling
    \/ \E o \in OpIds : SleepDone(o)
    \/ Closing
    \/ Endpoint

SpecCall == Init /\ [][NextCall]_vars

\* CloseE on Browsers whose context came from ConnectE or from Context(ctx),
\* with other CloseE calls and waits in flight.
NextClose ==
    \/ Connecting
    \/ \E b \in SessIds, x \in ScopeIds, fresh \in BOOLEAN : Context(b, x, fresh)
    \/ Closing
    \/ \E b \in SessIds : Len(waits) < MaxWaits /\ WaitEventE(b, "A")
    \/ \E w \in WaitIds : WaitSubscribe(w)
    \/ \E w \in WaitIds : WaitCtxDone(w)
    \/ Endpoint

SpecClose == Init /\ [][NextClose]_vars

\* PageE and PagesE against the endpoint's targets.
NextPage ==
    \/ Connecting
    \/ \E b \in SessIds : PageE(b)
    \/ \E o \in OpIds : PageCreated(o)
    \/ \E o \in OpIds : PageAttached(o)
    \/ \E o \in OpIds : PageNavigated(o)
    \/ \E b \in SessIds : PagesE(b)
    \/ \E o \in OpIds : PagesReturn(o)
    \/ \E o \in OpIds : PagesAttached(o)
    \/ \E type \in {"page", "other"} : TargetAppears(type)
    \/ Endpoint

SpecPage == Init /\ [][NextPage]_vars

\* Waiters and the events of the connection: registration, subscription, the
\* receive loop, the Publish goroutines, delivery, and cancellation by the
\* waiter's own cancel function.
NextEvent ==
    \/ Connecting
    \/ Waiting
    \/ Publishing
    \/ \E r \in ReqIds, ok \in BOOLEAN : Respond(r, ok)

SpecEvent == Init /\ [][NextEvent]_vars

\* The receive loop, the Publish goroutines and the waiters taking events, with
\* filters that may never return; no wait is cancelled.
NextLoop ==
    \/ Connecting
    \/ \E b \in SessIds, f \in Methods : WaitEventE(b, f)
    \/ \E w \in WaitIds : WaitSubscribe(w)
    \/ Publishing
    \/ \E r \in ReqIds, ok \in BOOLEAN : Respond(r, ok)

SpecLoop == Init /\ [][NextLoop]_vars

\* Go schedules every runnable goroutine: a waiter's goroutine subscribes and
\* takes the next event published to it, and a Publish goroutine runs. Nothing is
\* assumed of a filter: it may never return.
FairLoop ==
    /\ SpecLoop
    /\ \A w \in 1..MaxListeners :
          /\ WF_vars(WaitSubscribe(w))
          /\ \A e \in 1..MaxEvents : WF_vars(\E hang \in BOOLEAN : Deliver(e, w, hang))
    /\ \A e \in 1..MaxEvents : WF_vars(Publish(e))

\* Every operation the callers have started has ended, its convenience form
\* included.
Idle == \A o \in OpIds : ops[o].pc = "done" /\ ops[o].back

\* Every operation called through its convenience form: Connect, then Close, Page
\* and Pages one after the other, and a WaitEvent beside them, with the events
\* and the endpoint that decide how each ends. A form starts as its
\* explicit-failure form, which it calls first, and ends with its own step. The
\* connection brings as many events as there are waits to take them.
NextForms ==
    \/ \E b \in SessIds : Idle /\ ConnectE(b)
    \/ \E o \in OpIds, ok \in BOOLEAN : ConnectDial(o, ok)
    \/ \E o \in OpIds : ConnectInitEvents(o)
    \/ \E o \in OpIds : ConnectReturn(o)
    \/ \E o \in OpIds : Connect(o)
    \/ \E b \in SessIds : Idle /\ CloseE(b)
    \/ \E o \in OpIds : CloseReturn(o)
    \/ \E o \in OpIds : Close(o)
    \/ \E b \in SessIds : Idle /\ PageE(b)
    \/ \E o \in OpIds : PageCreated(o)
    \/ \E o \in OpIds : PageAttached(o)
    \/ \E o \in OpIds : PageNavigated(o)
    \/ \E o \in OpIds : Page(o)
    \/ \E b \in SessIds : Idle /\ PagesE(b)
    \/ \E o \in OpIds : PagesReturn(o)
    \/ \E o \in OpIds : PagesAttached(o)
    \/ \E o \in OpIds : Pages(o)
    \/ \E b \in SessIds : Len(waits) < MaxWaits /\ WaitEventE(b, "A")
    \/ \E w \in WaitIds : WaitSubscribe(w)
    \/ \E w \in WaitIds : WaitCtxDone(w)
    \/ \E w \in WaitIds : WaitEvent(w)
    \/ Len(evs) < MaxWaits /\ RecvEvent("A")
    \/ \E e \in EvIds : Publish(e)
    \/ \E e \in EvIds, w \in WaitIds : Deliver(e, w, FALSE)
    \/ Endpoint

SpecForms == Init /\ [][NextForms]_vars

\* Index ranges for fairness and for the properties below.
OpRange == 1..(MaxConnects + MaxSessions + MaxCalls + MaxCloses + MaxPages + MaxLists)
WaitRange == 1..MaxWaits

\* Go schedules every runnable goroutine: a call whose outcome is available
\* returns, a waiter's goroutine subscribes, and a waiter whose context is done
\* returns. Nothing is assumed of the endpoint, the connection or the callers.
FairScope ==
    /\ SpecScope
    /\ \A o \in OpRange : WF_vars(CallReturn(o)) /\ WF_vars(ConnectReturn(o))
    /\ \A w \in WaitRange : WF_vars(WaitSubscribe(w)) /\ WF_vars(WaitCtxDone(w))

\* A session, the sessions Timeout makes of it and the cancelling of their
\* scopes, with calls and a wait in flight and the responses and events of the
\* connection: what a call or a wait in flight on a cancelled scope returns when
\* its response or a matching event comes.
NextCancel ==
    \/ \E b \in SessIds : ConnectE(b)
    \/ \E o \in OpIds : ConnectDial(o, TRUE)
    \/ \E o \in OpIds : ConnectInitEvents(o)
    \/ \E o \in OpIds : ConnectReturn(o)
    \/ \E b \in SessIds : Timeout(b)
    \/ \E o \in OpIds : TimeoutReturn(o)
    \/ \E x \in ScopeIds : DeadlineExpire(x)
    \/ Calling
    \/ \E b \in SessIds : Len(waits) < MaxWaits /\ WaitEventE(b, "A")
    \/ \E w \in WaitIds : WaitSubscribe(w)
    \/ \E w \in WaitIds : WaitCtxDone(w)
    \/ \E r \in ReqIds : Respond(r, TRUE)
    \/ RecvEvent("A")
    \/ \E e \in EvIds : Publish(e)
    \/ \E e \in EvIds, w \in WaitIds : Deliver(e, w, FALSE)

SpecCancel == Init /\ [][NextCancel]_vars

\* The scheduling of FairScope.
FairCancel ==
    /\ SpecCancel
    /\ \A o \in OpRange : WF_vars(CallReturn(o)) /\ WF_vars(ConnectReturn(o))
    /\ \A w \in WaitRange : WF_vars(WaitSubscribe(w)) /\ WF_vars(WaitCtxDone(w))

\* ---------------------------------------------------------------- properties
\* Operation o is inside a b.Call that has not returned.
InFlight(o) == o \in OpIds /\ ops[o].pc \in {"sleep", "call"}

\* Operation o has returned from its last b.Call.
Returned(o) == o \in OpIds /\ ops[o].pc = "done"

\* The last call of operation o was made before its context was done, the
\* response (or the closing of the connection) reached it only after the context
\* was done, and the call has returned.
AnsweredLate(o) ==
    /\ ops[o].pc = "done"
    /\ ops[o].req # 0
    /\ reqs[ops[o].req].live
    /\ reqs[ops[o].req].late

\* Waiter w's goroutine is inside Until, or on its way into it, and Until has not
\* returned. (On a Browser without an observable there is no Until to enter.)
WaitInFlight(w) ==
    /\ w \in WaitIds
    /\ \/ waits[w].pc \in {"subscribed", "stuck"}
       \/ waits[w].pc = "spawned" /\ sess[waits[w].b].event

\* Waiter w's Until has returned.
WaitReturned(w) == w \in WaitIds /\ waits[w].pc = "done"

\* Waiter w was made before the context of its Browser was done, the event it
\* looked at last was published only after that context was done, and the
\* waiter's Until has returned.
ReachedLate(w) ==
    /\ waits[w].pc = "done"
    /\ waits[w].live
    /\ waits[w].event # 0
    /\ w \in evs[waits[w].event].cut

\* C2: once the scope of a session is cancelled, every Call and every WaitEvent
\* wait in flight on the session returns, and what it returns is a cancellation:
\* a response or a matching event that comes after the cancellation does not
\* make it return its natural result.
C2_CancelUnblocks ==
    /\ \A o \in OpRange :
          (InFlight(o) /\ Done(sess[ops[o].b].ctx)) ~> Returned(o)
    /\ \A w \in WaitRange :
          (WaitInFlight(w) /\ Done(sess[waits[w].b].ctx)) ~> WaitReturned(w)
    /\ [](\A o \in OpIds : AnsweredLate(o) => ops[o].ret = "cancelled")
    /\ [](\A w \in WaitIds : ReachedLate(w) => waits[w].err = "cancelled")

\* Browser d was derived from Browser p, which had a context.
Derived(d, p) == lineage[d].from = p /\ sess[p].ctx # NoCtx

\* C3: whenever the scope of a parent session is cancelled, the scope of every
\* session derived from it by Context(ctx) or Timeout(d) is cancelled.
C3_ParentCancelsDerived ==
    \A d \in SessIds, p \in SessIds :
        (Derived(d, p) /\ sess[d].ctx # NoCtx /\ Done(sess[p].ctx)) => Done(sess[d].ctx)

\* The scope of Browser s is as done after the step as before.
SameDone(s) ==
    sess[s].ctx # NoCtx => (scopes'[sess[s].ctx].done = scopes[sess[s].ctx].done)

\* Browsers d and s were derived from the same Browser.
Siblings(d, s) == s # d /\ lineage[s].from = lineage[d].from

\* The step cancels context x itself: its deadline expires, a Browser's
\* timeoutCancel handle for it is called, or the caller who made it cancels it.
CancelsScope(x) ==
    \/ DeadlineExpire(x)
    \/ UserCancel(x)
    \/ \E h \in SessIds : sess[h].timeoutCancel = x /\ CancelTimeout(h)

\* The step cancels the scope of Browser d.
CancelsOwn(d) == sess[d].ctx # NoCtx /\ CancelsScope(sess[d].ctx)

Derives ==
    \/ \E b \in SessIds, x \in ScopeIds, fresh \in BOOLEAN : Context(b, x, fresh)
    \/ \E b \in SessIds : Timeout(b)
    \/ \E o \in OpIds : TimeoutReturn(o)

\* C5: Context(ctx) and Timeout(d) leave every field of the receiver, and of every
\* other Browser, as it was: the only change is the new Browser.
C5_DerivationCopies ==
    [][Derives => \A s \in SessIds : sess'[s] = sess[s]]_vars

\* Operation o is inside a b.Call on a Browser made by Timeout whose deadline
\* has expired.
InFlightOnTimeout(o) ==
    /\ InFlight(o)
    /\ lineage[ops[o].b].via = "timeout"
    /\ scopes[lineage[ops[o].b].made].expired

\* C6: a Call on a session made by Timeout(d) that is in flight when the deadline
\* expires returns, and if its response had not arrived when the deadline expired
\* it returns a cancellation.
C6_TimeoutUnblocksCall ==
    /\ \A o \in OpRange : InFlightOnTimeout(o) ~> Returned(o)
    /\ [](\A o \in OpIds :
             (/\ ops[o].kind = "call"
              /\ lineage[ops[o].b].via = "timeout"
              /\ scopes[lineage[ops[o].b].made].expired
              /\ AnsweredLate(o))
             => ops[o].ret = "cancelled")

\* What an operation of a kind returns when its only call returns out.
Returns(kind, out) ==
    IF kind \in {"close", "connect"} /\ out = "result" THEN "ok" ELSE out

\* The outcome of every request is the one its slot was resolved with, or a
\* cancellation of its context; an operation inside Call has no outcome yet, and
\* one that has returned from Call returned its request's outcome.
OutcomeKnown ==
    /\ \A r \in ReqIds :
          /\ reqs[r].outcome \in {"none", "cancelled", reqs[r].slot}
          /\ reqs[r].outcome = "cancelled" => Done(reqs[r].ctx)
    /\ \A o \in OpIds :
          (ops[o].kind \in {"call", "close", "connect"} /\ ops[o].req # 0)
          => /\ reqs[ops[o].req].op = o
             /\ ops[o].pc = "call" => reqs[ops[o].req].outcome = "none"
             /\ ops[o].pc = "done"
                => /\ reqs[ops[o].req].outcome # "none"
                   /\ ops[o].ret = Returns(ops[o].kind, reqs[ops[o].req].outcome)

\* A resolved slot and a returned outcome never change.
OutcomeStable ==
    \A r \in ReqIds :
        /\ reqs[r].slot # "none" => reqs'[r].slot = reqs[r].slot
        /\ reqs[r].outcome # "none" => reqs'[r].outcome = reqs[r].outcome

\* C1: every request sent through Browser.Call resolves to at most one outcome
\* (result, remote error, connection error or cancellation), which never changes;
\* the Call that issued it returns only once that outcome is known, and returns
\* that outcome.
C1_OneOutcome == []OutcomeKnown /\ [][OutcomeStable]_vars

\* A caller's Call, delayed by slow motion, has returned a cancellation while
\* CloseE's call returned the endpoint's result, and a second CloseE's call a
\* connection error.
C1_Witness ==
    \E o \in OpIds, c \in OpIds, n \in OpIds :
        /\ ops[o].kind = "call" /\ ops[o].ret = "cancelled"
        /\ sess[ops[o].b].slowmotion
        /\ ops[c].kind = "close" /\ ops[c].ret = "ok"
        /\ ops[n].kind = "close" /\ ops[n].ret = "connErr" /\ ops[n].req # 0

\* The context ConnectE gave the connection, cdp.New(b.ctx, b.controlURL): the
\* root scope of the session that connected.
RootScope ==
    LET c == CHOOSE o \in OpIds : ops[o].kind = "connect" /\ ops[o].ret # "connectErr"
    IN sess[ops[c].b].ctx

\* C7 as claimed: however the scope of the connected session was established, a
\* successful Close has cancelled its root scope, so that nothing waits on it any
\* more, and the root scope is cancelled only after the endpoint has answered a
\* Browser.close call.
C7_CloseCancelsRoot ==
    /\ \A o \in OpIds :
          (ops[o].kind = "close" /\ ops[o].ret = "ok") => Done(RootScope)
    /\ \A x \in ScopeIds :
          (scopes[x].kind = "root" /\ Done(x))
          => \E r \in ReqIds :
                reqs[r].method = "Browser.close" /\ reqs[r].outcome = "result"

\* C8 as claimed: a Close on a session that was closed successfully before
\* fails with a connection error.
C8_SecondCloseConnErr ==
    \A o \in OpIds :
        (ops[o].kind = "close" /\ ops[o].prior /\ ops[o].pc = "done")
        => ops[o].ret = "connErr"

\* C8, amended: a Close on a session that was closed successfully before fails,
\* with a connection error or, the first Close having cancelled the session's
\* scope, with a cancellation; and whenever the close call fails, CloseE returns
\* that error.
C8_SecondCloseFails ==
    \A o \in OpIds :
        (ops[o].kind = "close" /\ ops[o].pc = "done")
        => /\ ops[o].prior => ops[o].ret \in {"connErr", "cancelled"}
           /\ ops[o].ret = "cancelled" => Done(sess[ops[o].b].ctx)
           /\ ops[o].req = 0 => ops[o].ret = "connErr"
           /\ (ops[o].req # 0 /\ reqs[ops[o].req].outcome # "result")
              => ops[o].ret = reqs[ops[o].req].outcome

\* A second Close, started after a successful one on the same Browser, has
\* returned a cancellation while the connection was still open.
C8_Witness ==
    \E o \in OpIds :
        /\ ops[o].kind = "close" /\ ops[o].prior /\ ops[o].ret = "cancelled"
        /\ conn = "open"

\* The requests operation o has issued, in the order it issued them.
Issued(o) == SelectSeq([r \in ReqIds |-> r], LAMBDA r : reqs[r].op = o)

\* PageE operation o got a TargetID and its navigate call failed.
NavigateFailed(o) ==
    /\ ops[o].kind = "page" /\ ops[o].pc = "done"
    /\ ops[o].req # 0
    /\ reqs[ops[o].req].method = "Page.navigate"
    /\ reqs[ops[o].req].outcome # "result"

\* C9: when create-target succeeded and the navigate call is rejected, PageE
\* returns the navigate failure and no Page, the navigate call being the last
\* call it issued, and the
\* target stays: every PagesE whose query is sent later and that returns a list
\* has the target in it.
C9_NavigateFailLeavesTarget ==
    \A o \in OpIds :
        NavigateFailed(o)
        => /\ ops[o].ret = reqs[ops[o].req].outcome
           /\ ops[o].page = 0
           /\ Issued(o)[Len(Issued(o))] = ops[o].req
           /\ targets[ops[o].tid] = "page"
           /\ \A q \in OpIds :
                 (/\ ops[q].kind = "pages" /\ ops[q].ret = "ok"
                  /\ Issued(q)[1] > ops[o].req)
                 => \E i \in DOMAIN ops[q].pages : ops[q].pages[i] = ops[o].tid

\* A PageE whose navigate call the endpoint rejected has returned, and a PagesE
\* started after it has returned a list.
C9_Witness ==
    \E o \in OpIds, q \in OpIds :
        /\ NavigateFailed(o) /\ ops[o].ret = "remoteErr"
        /\ ops[q].kind = "pages" /\ ops[q].ret = "ok"
        /\ Issued(q)[1] > ops[o].req
        /\ Len(ops[q].pages) = 2

\* C10 as claimed: a PageE that succeeds has issued exactly a create-target call
\* and then a navigate call for the TargetID the endpoint answered, and returns a
\* Page with that TargetID; no navigate call is issued when create-target failed.
C10_CreateThenNavigate ==
    \A o \in OpIds :
        ops[o].kind = "page"
        => LET is == Issued(o) IN
           /\ Len(is) <= 2
           /\ Len(is) >= 1 => reqs[is[1]].method = "Target.createTarget"
           /\ Len(is) = 2
              => /\ reqs[is[2]].method = "Page.navigate"
                 /\ reqs[is[1]].outcome = "result"
                 /\ reqs[is[2]].tid = reqs[is[1]].tid
           /\ ops[o].ret = "ok"
              => /\ Len(is) = 2
                 /\ ops[o].page = reqs[is[1]].tid

\* C10, amended: a PageE issues a create-target call, then, for the TargetID the
\* endpoint answered, the exchange that attaches the Page to its target, then a
\* navigate call for that TargetID, and nothing else; each is issued only when
\* the one before succeeded; and a PageE returns a Page exactly when all three
\* succeeded, with that TargetID.
C10_CreateAttachNavigate ==
    \A o \in OpIds :
        ops[o].kind = "page"
        => LET is == Issued(o) IN
           /\ Len(is) <= 3
           /\ Len(is) >= 1 => reqs[is[1]].method = "Target.createTarget"
           /\ Len(is) >= 2
              => /\ reqs[is[2]].method = "Target.attachToTarget"
                 /\ reqs[is[1]].outcome = "result"
                 /\ reqs[is[1]].tid # 0
                 /\ reqs[is[2]].tid = reqs[is[1]].tid
           /\ Len(is) = 3
              => /\ reqs[is[3]].method = "Page.navigate"
                 /\ reqs[is[2]].outcome = "result"
                 /\ reqs[is[3]].tid = reqs[is[1]].tid
           /\ ops[o].ret = "ok"
              => /\ Len(is) = 3
                 /\ reqs[is[3]].outcome = "result"
                 /\ ops[o].page = reqs[is[1]].tid
           /\ ops[o].ret # "ok" => ops[o].page = 0

\* A PageE has returned a Page for a target that is not the endpoint's first:
\* the endpoint has answered its create-target, attach and navigate calls.
C10_Witness ==
    \E o \in OpIds :
        /\ ops[o].kind = "page" /\ ops[o].ret = "ok"
        /\ ops[o].page > 1
        /\ Len(Issued(o)) = 3
        /\ reqs[Issued(o)[2]].method = "Target.attachToTarget"
        /\ reqs[ops[o].req].method = "Page.navigate"
        /\ reqs[ops[o].req].tid = ops[o].page

\* ---------------------------------------------------------------- events
\* Waiter w's accessor has returned an event and no error.
Fulfilled(w) == waits[w].pc = "done" /\ waits[w].err = "none"

\* C11: an event reaches only waiters that were subscribed when it was published:
\* a waiter never takes, and so never returns, an event that had been published
\* when its WaitEventE was called.
C11_NoReplay ==
    \A w \in WaitIds : \A i \in DOMAIN waits[w].seen :
        /\ waits[w].seen[i] \notin waits[w].known
        /\ w \in evs[waits[w].seen[i]].snap

\* A waiter registered after an event matching its filter was published has
\* returned a later event.
C11_Witness ==
    \E w \in WaitIds :
        /\ Fulfilled(w)
        /\ \E e \in waits[w].known : evs[e].method = waits[w].filter
        /\ waits[w].event \notin waits[w].known

\* C12 as claimed: a waiter that was subscribed when e1 was received, and whose
\* filter e1 and the later e2 both match, returns e1, never e2.
C12_InOrder ==
    \A w \in WaitIds : \A e1 \in EvIds, e2 \in EvIds :
        (/\ e1 < e2
         /\ w \in evs[e1].subs
         /\ evs[e1].method = waits[w].filter
         /\ evs[e2].method = waits[w].filter
         /\ Fulfilled(w))
        => waits[w].event # e2

\* Some step changes waiter w: its goroutine moves, or its cancel function is called.
Moves(w) == waits'[w] # waits[w] \/ WaitCancel(w)

\* The step leaves waiter v, its context and the events on their way to it alone.
Untouched(v) ==
    /\ waits'[v] = waits[v]
    /\ scopes'[waits[v].ctx] = scopes[waits[v].ctx]
    /\ \A e \in EvIds : (v \in evs'[e].to) = (v \in evs[e].to)

\* C13: a waiter takes the events published while it was subscribed, in the order
\* of their publishing, passes over those its filter rejects and returns the first
\* that matches; and a step of one waiter (taking an event, being fulfilled, being
\* cancelled) changes nothing of another waiter, nor of the events on their way
\* to it.
C13_WaitersIndependent ==
    /\ [](\A w \in WaitIds :
            /\ \A i \in DOMAIN waits[w].seen :
                  /\ w \in evs[waits[w].seen[i]].snap
                  /\ i < Len(waits[w].seen)
                     => /\ evs[waits[w].seen[i]].method # waits[w].filter
                        /\ evs[waits[w].seen[i]].seq < evs[waits[w].seen[i + 1]].seq
            /\ \A e \in EvIds :
                  (w \in evs[e].snap /\ evs[e].method = waits[w].filter)
                  => \/ w \in evs[e].to
                     \/ \E i \in DOMAIN waits[w].seen : waits[w].seen[i] = e
                     \/ waits[w].pc = "done")
    /\ [][\A w \in WaitIds : Moves(w) => \A v \in WaitIds \ {w} : Untouched(v)]_vars

\* Two waiters with different filters, subscribed to the same two events, have
\* each returned the event matching its own filter.
C13_Witness ==
    \E w \in WaitIds, v \in WaitIds :
        /\ waits[w].filter # waits[v].filter
        /\ Fulfilled(w) /\ Fulfilled(v)
        /\ waits[w].event # waits[v].event
        /\ \A e \in EvIds : {w, v} \subseteq evs[e].snap

\* C14: a waiter whose accessor returns an event and no error returns an event
\* that satisfies its filter.
C14_ReturnsMatch ==
    \A w \in WaitIds :
        Fulfilled(w)
        => /\ waits[w].event # 0
           /\ evs[waits[w].event].method = waits[w].filter

\* Events "A" then "B" were received and published in that order, and a waiter
\* filtering "B" took both and returned the second.
C14_Witness ==
    \E w \in WaitIds :
        /\ waits[w].filter = "B" /\ Fulfilled(w)
        /\ Len(evs) = 2 /\ evs[1].method = "A" /\ evs[2].method = "B"
        /\ evs[1].seq = 1
        /\ waits[w].seen = <<1, 2>> /\ waits[w].event = 2

\* C15 as claimed: a waiter whose cancel function was called before any event
\* matching its filter was published returns a cancellation: one that returns an
\* event and no error has seen a matching event published while its context was
\* not yet cancelled.
C15_CancelWins ==
    \A w \in WaitIds :
        Fulfilled(w)
        => \E e \in EvIds : /\ evs[e].published
                            /\ evs[e].method = waits[w].filter
                            /\ w \notin evs[e].gone

\* C16: the receive loop takes the next message whatever the waiters and the
\* Publish goroutines are doing; every event received is published; and every
\* subscribed waiter that a matching event was published to takes it and returns
\* (or is itself stuck in its filter), whatever the other waiters do.
C16_StuckWaiterBlocksNobody ==
    /\ []((LoopRunning /\ Len(evs) < MaxEvents) => ENABLED RecvEvent("A"))
    /\ \A e \in 1..MaxEvents :
          (e \in EvIds) ~> (e \in EvIds /\ evs[e].published)
    /\ \A e \in 1..MaxEvents : \A w \in 1..MaxListeners :
          (/\ e \in EvIds /\ w \in WaitIds
           /\ w \in evs[e].to
           /\ waits[w].pc = "subscribed"
           /\ evs[e].method = waits[w].filter)
          ~> (w \in WaitIds /\ waits[w].pc \in {"done", "stuck"})

\* One waiter is stuck in its filter on the first event, the second event was
\* received and published while it was stuck and is still on its way to it, and
\* the other waiter has returned the second event.
C16_Witness ==
    \E w \in WaitIds, v \in WaitIds :
        /\ Len(evs) = 2
        /\ waits[w].pc = "stuck" /\ waits[w].event = 1
        /\ w \in evs[1].subs /\ w \notin evs[2].subs
        /\ w \in evs[2].to
        /\ Fulfilled(v) /\ waits[v].event = 2

\* C17: a PagesE that returns a list returns, for the targetInfos its query was
\* answered with, the TargetIDs of exactly the targets of type "page", each once
\* and in the order of the list; one whose query failed returns that error, one
\* that failed to build a Page returns that error, and neither returns a list.
C17_PagesExactly ==
    \A q \in OpIds :
        (ops[q].kind = "pages" /\ ops[q].pc = "done")
        => LET is == Issued(q)
               r == IF is = <<>> THEN 0 ELSE is[1]
               list == IF r = 0 THEN <<>> ELSE reqs[r].list
               ps == ops[q].pages
           IN /\ ops[q].ret = "ok"
                 => /\ r # 0 /\ reqs[r].outcome = "result"
                    /\ \A i \in DOMAIN ps : ps[i] \in DOMAIN list /\ list[ps[i]] = "page"
                    /\ \A i \in DOMAIN ps, j \in DOMAIN ps : i < j => ps[i] < ps[j]
                    /\ \A t \in DOMAIN list :
                          list[t] = "page" => \E i \in DOMAIN ps : ps[i] = t
              /\ ops[q].ret # "ok" => ps = <<>>
              /\ r = 0 => ops[q].ret = "connErr"
              /\ (r # 0 /\ reqs[r].outcome # "result") => ops[q].ret = reqs[r].outcome
              /\ (r # 0 /\ reqs[r].outcome = "result" /\ ops[q].ret # "ok")
                 => /\ \E t \in DOMAIN list : list[t] = "page"
                    /\ ops[q].req = 0 => ops[q].ret = "connErr"
                    /\ ops[q].req # 0
                       => /\ reqs[ops[q].req].method = "Target.attachToTarget"
                          /\ reqs[ops[q].req].outcome # "result"
                          /\ ops[q].ret = reqs[ops[q].req].outcome
              /\ \A i \in 2..Len(is) :
                    /\ reqs[is[i]].method = "Target.attachToTarget"
                    /\ list[reqs[is[i]].tid] = "page"

\* A PagesE whose query was answered with a page, another target and a page has
\* returned the first and the third.
C17_Witness ==
    \E q \in OpIds :
        /\ ops[q].kind = "pages" /\ ops[q].ret = "ok"
        /\ reqs[Issued(q)[1]].list = <<"page", "other", "page">>
        /\ ops[q].pages = <<1, 3>>

\* What the explicit-failure form of operation o returned besides the error:
\* PageE its Page, PagesE its list, ConnectE and CloseE nothing.
Explicit(o) ==
    CASE ops[o].kind = "page" -> <<ops[o].page>>
      [] ops[o].kind = "pages" -> <<ops[o].pages>>
      [] OTHER -> <<>>

\* The step is the end of a convenience form and does nothing but end it: no
\* context, Browser, request, target, event or other operation changes, and of
\* the operation itself nothing that its explicit-failure form left.
EndsOnly ==
    /\ \A o \in OpIds :
          (~ops[o].back /\ ops'[o].back)
          => /\ UNCHANGED <<scopes, sess, lineage, conn, closing, reqs, waits, evs,
                            targets>>
             /\ \A q \in OpIds \ {o} : ops'[q] = ops[q]
             /\ [ops'[o] EXCEPT !.back = FALSE, !.panic = "none", !.value = <<>>]
                = ops[o]
    /\ \A w \in WaitIds :
          (~waits[w].back /\ waits'[w].back)
          => /\ UNCHANGED <<scopes, sess, lineage, conn, closing, reqs, ops, evs,
                            targets>>
             /\ \A v \in WaitIds \ {w} : waits'[v] = waits[v]
             /\ [waits'[w] EXCEPT !.back = FALSE, !.panic = "none", !.value = <<>>]
                = waits[w]

\* What the ended convenience forms of the waiters did is what the accessor of
\* WaitEventE returned: a panic exactly when it returned an error, with that
\* error, and otherwise its event.
WaitFormsBacked ==
    \A w \in WaitIds :
        waits[w].back
        => /\ waits[w].pc = "done"
           /\ waits[w].err # "none"
              => waits[w].panic = waits[w].err /\ waits[w].value = <<>>
           /\ waits[w].err = "none"
              => waits[w].panic = "none" /\ waits[w].value = <<waits[w].event>>

\* C18 as claimed: Connect, Close, Page, Pages and the accessor of WaitEvent run
\* ConnectE, CloseE, PageE, PagesE and the accessor of WaitEventE and then end:
\* with a panic exactly when the explicit form returned an error, the panic being
\* that error, and otherwise returning what the explicit form returned; and
\* ending changes nothing that the explicit form left.
C18_ConvenienceBacked ==
    /\ [](\A o \in OpIds :
             ops[o].back
             => /\ ops[o].pc = "done"
                /\ ops[o].ret # "ok" => ops[o].panic = ops[o].ret /\ ops[o].value = <<>>
                /\ ops[o].ret = "ok"
                   => ops[o].panic = "none" /\ ops[o].value = Explicit(o))
    /\ []WaitFormsBacked
    /\ [][EndsOnly]_vars

\* C18, amended: as claimed for Close, Page, Pages and the accessor of WaitEvent;
\* Connect, whose explicit form returns nothing but the error, panics exactly
\* when ConnectE returned an error, with that error, and otherwise returns the
\* Browser it was called on.
C18_ConvenienceBacksForms ==
    /\ [](\A o \in OpIds :
             ops[o].back
             => /\ ops[o].pc = "done"
                /\ ops[o].ret # "ok" => ops[o].panic = ops[o].ret /\ ops[o].value = <<>>
                /\ ops[o].ret = "ok"
                   => /\ ops[o].panic = "none"
                      /\ ops[o].value = IF ops[o].kind = "connect"
                                        THEN <<ops[o].b>> ELSE Explicit(o))
    /\ []WaitFormsBacked
    /\ [][EndsOnly]_vars

\* Connect has returned its Browser, Page has returned a Page, Pages has aborted
\* with the endpoint's error, a Close has aborted with a cancellation after one
\* that returned, and the accessor of WaitEvent has aborted with a cancellation.
C18_Witness ==
    \E k \in OpIds, p \in OpIds, q \in OpIds, c \in OpIds, w \in WaitIds :
        /\ ops[k].kind = "connect" /\ ops[k].back
        /\ ops[k].panic = "none" /\ ops[k].value = <<ops[k].b>>
        /\ ops[p].kind = "page" /\ ops[p].back
        /\ ops[p].panic = "none" /\ ops[p].value = <<ops[p].tid>> /\ ops[p].tid # 0
        /\ ops[q].kind = "pages" /\ ops[q].back /\ ops[q].panic = "remoteErr"
        /\ ops[c].kind = "close" /\ ops[c].prior /\ ops[c].back
        /\ ops[c].panic = "cancelled"
        /\ waits[w].back /\ waits[w].panic = "cancelled"

\* C19 as claimed: an event matching a waiter's filter that is published after
\* the waiter's WaitEventE returned, the waiter having neither returned nor been
\* cancelled, reaches the waiter.
C19_RegisteredOnReturn ==
    \A e \in EvIds, w \in WaitIds :
        (/\ evs[e].published
         /\ w \in evs[e].live
         /\ evs[e].method = waits[w].filter)
        => w \in evs[e].snap

\* C20 as claimed: an accessor that returns an error returns no event.
C20_ErrorMeansNoEvent ==
    \A w \in WaitIds :
        (waits[w].pc = "done" /\ waits[w].err # "none") => waits[w].event = 0

====
